---------------------------- MODULE Spec2Model ----------------------------
(***************************************************************************)
(* A model of tunnel-manager's reconciliation engine: SyncState, the state *)
(* deriver SyncKube, the tunnel publisher SyncTunnel and the DNS           *)
(* reconciler SyncDNS.                                                     *)
(*                                                                         *)
(* Strings are sequences of symbols.  A symbol is one character ("a", "A", *)
(* ".", " ", ",") or a run of lower-case characters that no operation of   *)
(* the program splits ("cfargotunnel", "managed").  Maps are functions; a  *)
(* Go map lookup of a missing key yields the zero value (MapGet).          *)
(***************************************************************************)
EXTENDS Integers, Sequences, FiniteSets, TLC

VARIABLES
    HostToService,  \* state.go: SyncState.HostToService
    lastAppend,     \* the last SyncState.Append call: arguments, map before, result
    bmz,            \* one call of bestMatchingZone: arguments and result
    cluster,        \* the cluster snapshot the Kubernetes API answers from
    derived,        \* SyncKube has returned a SyncState that is not yet published
    puts,           \* the PUT .../configurations requests sent so far, in order
    zones,          \* the provider: the active zones of the account, in listing order
    records,        \* the provider: the DNS records of all zones, in listing order
    records0,       \* the records before the first SyncDNS pass
    dns,            \* SyncDNS: where it is, its local variables, its result
    calls,          \* the create, update and delete calls of the current pass
    listed,         \* the zones whose records the current pass has asked for
    asked,          \* the current pass has asked for the zones of the account
    pass,           \* the SyncDNS passes started
    faults,         \* the provider calls that have failed
    nextID,         \* the provider: the number of the next record created
    loop,           \* main: the polling loop, its context and its timer
    pager           \* one call of loadZones or loadDNSRecords: its loop over pages

stateVars == <<HostToService, lastAppend>>
zoneVars == <<bmz>>
kubeVars == <<cluster, derived, puts>>
dnsVars == <<zones, records, records0, dns, calls, listed, asked, pass, faults, nextID>>
driverVars == <<loop>>
pageVars == <<pager>>
vars == <<HostToService, lastAppend, bmz, cluster, derived, puts,
          zones, records, records0, dns, calls, listed, asked, pass, faults, nextID, loop,
          pager>>

----------------------------------------------------------------------------
(* strings *)

EmptyString == <<>>

ToLowerChar(c) ==
    CASE c = "A" -> "a"
      [] c = "B" -> "b"
      [] c = "T" -> "t"
      [] c = "Z" -> "z"
      [] OTHER -> c

ToLower(s) == [i \in 1..Len(s) |-> ToLowerChar(s[i])]

IsSpace(c) == c = " "

RECURSIVE TrimLeft(_)
TrimLeft(s) ==
    IF s # <<>> /\ IsSpace(Head(s)) THEN TrimLeft(Tail(s)) ELSE s

RECURSIVE TrimRight(_)
TrimRight(s) ==
    IF s # <<>> /\ IsSpace(s[Len(s)]) THEN TrimRight(SubSeq(s, 1, Len(s) - 1)) ELSE s

TrimSpace(s) == TrimRight(TrimLeft(s))

HasSuffix(s, suffix) ==
    /\ Len(suffix) <= Len(s)
    /\ SubSeq(s, Len(s) - Len(suffix) + 1, Len(s)) = suffix

TrimSuffix(s, suffix) ==
    IF HasSuffix(s, suffix) THEN SubSeq(s, 1, Len(s) - Len(suffix)) ELSE s

Contains(s, substr) ==
    \E i \in 0..(Len(s) - Len(substr)) : SubSeq(s, i + 1, i + Len(substr)) = substr

\* a normalizeHost that forgets to lower-case
normalizeHostKeepCase(s) == TrimSuffix(TrimSpace(s), <<".">>)

normalizeHost(s) == ToLower(TrimSuffix(TrimSpace(s), <<".">>))

equalDNSHost(a, b) == normalizeHost(a) = normalizeHost(b)

MapGet(m, k, zero) == IF k \in DOMAIN m THEN m[k] ELSE zero

EmptyMap == [k \in {} |-> <<>>]

MapPut(m, k, v) == [x \in DOMAIN m \cup {k} |-> IF x = k THEN v ELSE m[x]]

----------------------------------------------------------------------------
(* SyncState (state.go) *)

NewSyncState == EmptyMap

SyncStateLen(m) == Cardinality(DOMAIN m)

\* an Append that overwrites the entry of a hostname already present
SyncStateAppendOverwrite(m, hostname, service) ==
    [err |-> hostname \in DOMAIN m, map |-> MapPut(m, hostname, service)]

\* Append(hostname, service): the error (TRUE: "already mapped") and the map after
SyncStateAppend(m, hostname, service) ==
    IF hostname \in DOMAIN m
    THEN [err |-> TRUE, map |-> m]
    ELSE [err |-> FALSE, map |-> MapPut(m, hostname, service)]

AppendHosts ==
    { <<"a", ".", "z">>, <<"A", ".", "z">>, <<"a", ".", "z", ".">>,
      <<"b", ".", "z">>, <<"c", ".", "y", ".", "z">> }

AppendServices == { <<"http://", "s1">>, <<"http://", "s2">> }

NoAppend == [called |-> FALSE]

StateIdle ==
    /\ HostToService = NewSyncState
    /\ lastAppend = NoAppend

\* a caller appends one hostname
AppendCall ==
    \E hostname \in AppendHosts, service \in AppendServices :
        LET r == SyncStateAppend(HostToService, hostname, service) IN
        /\ HostToService' = r.map
        /\ lastAppend' = [called |-> TRUE, hostname |-> hostname, service |-> service,
                          before |-> HostToService, err |-> r.err]
        /\ UNCHANGED <<zoneVars, kubeVars, dnsVars, driverVars, pageVars>>

----------------------------------------------------------------------------
(* bestMatchingZone (dns.go) *)

\* a bestMatchingZone that keeps the last matching zone instead of the longest
BestStepLast(best, hostname, z) ==
    LET name == normalizeHost(z.Name) IN
    IF hostname = name \/ HasSuffix(hostname, <<".">> \o name) THEN name ELSE best

\* one iteration of the loop over zones: the new value of best
BestStep(best, hostname, z) ==
    LET name == normalizeHost(z.Name) IN
    IF hostname = name \/ HasSuffix(hostname, <<".">> \o name)
    THEN IF Len(name) > Len(best) THEN name ELSE best
    ELSE best

RECURSIVE BestLoop(_, _, _)
BestLoop(best, hostname, zs) ==
    IF zs = <<>> THEN best
    ELSE BestLoop(BestStep(best, hostname, Head(zs)), hostname, Tail(zs))

bestMatchingZone(hostname, zs) == BestLoop(EmptyString, normalizeHost(hostname), zs)

MaxZoneList == 2

ZoneNamePool ==
    { <<"z">>, <<"y", ".", "z">>, <<"Y", ".", "Z", ".">>, <<"a", "z">>, <<"w">> }

ZoneHostPool ==
    { <<"a", ".", "z">>, <<"c", ".", "y", ".", "z">>, <<"C", ".", "Y", ".", "Z", ".">>,
      <<"y", ".", "z">>, <<"a", "z">>, <<"b", ".", "a", "z">>, <<"q", ".", "v">>,
      <<" ", "a", ".", "z", ".", " ">> }

ZoneOf(name) == [ID |-> <<"id">> \o name, Name |-> name]

RECURSIVE SeqsUpTo(_, _)
SeqsUpTo(S, n) ==
    IF n = 0 THEN { <<>> }
    ELSE LET shorter == SeqsUpTo(S, n - 1) IN
         shorter \cup { Append(s, x) : s \in shorter, x \in S }

ZoneIdle == bmz = [called |-> FALSE]

ZoneInputs ==
    bmz \in { [called |-> FALSE, hostname |-> h, zones |-> zs] :
                h \in ZoneHostPool,
                zs \in SeqsUpTo({ ZoneOf(n) : n \in ZoneNamePool }, MaxZoneList) }

CallBestMatchingZone ==
    /\ ~bmz.called
    /\ bmz' = [bmz EXCEPT !.called = TRUE] @@ ("result" :> bestMatchingZone(bmz.hostname, bmz.zones))
    /\ UNCHANGED <<stateVars, kubeVars, dnsVars, driverVars, pageVars>>

----------------------------------------------------------------------------
(* more strings: ordering, splitting, strconv.Atoi *)

\* the byte of a one-character symbol
Ord(c) ==
    CASE c = " " -> 32 [] c = "," -> 44 [] c = "-" -> 45 [] c = "." -> 46
      [] c = "0" -> 48 [] c = "1" -> 49 [] c = "5" -> 53 [] c = "7" -> 55
      [] c = "8" -> 56 [] c = "9" -> 57
      [] c = "A" -> 65 [] c = "B" -> 66 [] c = "Z" -> 90
      [] c = "a" -> 97 [] c = "b" -> 98 [] c = "c" -> 99 [] c = "m" -> 109
      [] c = "n" -> 110 [] c = "s" -> 115 [] c = "x" -> 120 [] c = "y" -> 121
      [] c = "z" -> 122

\* a < b on Go strings: bytewise lexicographic
RECURSIVE StrLess(_, _)
StrLess(a, b) ==
    IF b = <<>> THEN FALSE
    ELSE IF a = <<>> THEN TRUE
    ELSE IF Head(a) = Head(b) THEN StrLess(Tail(a), Tail(b))
    ELSE Ord(Head(a)) < Ord(Head(b))

ReplaceAll(s, old, new) == [i \in 1..Len(s) |-> IF s[i] = old THEN new ELSE s[i]]

\* the length of the leading run of non-space symbols
RECURSIVE FieldLen(_)
FieldLen(s) == IF s = <<>> \/ IsSpace(Head(s)) THEN 0 ELSE 1 + FieldLen(Tail(s))

\* strings.Fields
RECURSIVE Fields(_)
Fields(s) ==
    LET t == TrimLeft(s) IN
    IF t = <<>> THEN <<>>
    ELSE LET n == FieldLen(t) IN <<SubSeq(t, 1, n)>> \o Fields(SubSeq(t, n + 1, Len(t)))

IsDigit(c) == c \in {"0", "1", "5", "7", "8", "9"}

DigitVal(c) == Ord(c) - Ord("0")

RECURSIVE DigitsVal(_, _)
DigitsVal(acc, s) ==
    IF s = <<>> THEN acc ELSE DigitsVal(acc * 10 + DigitVal(Head(s)), Tail(s))

\* strconv.Atoi: the value (0 on error) and the error
Atoi(s) ==
    LET neg == s # <<>> /\ Head(s) = "-"
        digits == IF neg THEN Tail(s) ELSE s
    IN  IF digits = <<>> \/ \E i \in 1..Len(digits) : ~IsDigit(digits[i])
        THEN [val |-> 0, err |-> TRUE]
        ELSE [val |-> IF neg THEN 0 - DigitsVal(0, digits) ELSE DigitsVal(0, digits),
              err |-> FALSE]

\* the conversion int32(v) of an int: it changes no value between -2^31 and
\* 2^31 - 1, and the numbers an annotation of this model spells all are
Int32(v) == v

\* the orders in which a range loop may visit the keys of a map
RECURSIVE MapOrders(_)
MapOrders(S) ==
    IF S = {} THEN { <<>> }
    ELSE UNION { { <<x>> \o rest : rest \in MapOrders(S \ {x}) } : x \in S }

----------------------------------------------------------------------------
(* the cluster: namespaces, services, annotations *)

ServiceHostnamesAnnotation == "cloudflare-tunnel-hostnames"
ServiceUpstreamPortAnnotation == "cloudflare-tunnel-upstream-port"

Annot(hostnames) == (ServiceHostnamesAnnotation :> hostnames)
AnnotPort(hostnames, port) ==
    (ServiceHostnamesAnnotation :> hostnames) @@ (ServiceUpstreamPortAnnotation :> port)

Svc(name, annotations, ports) == [Name |-> name, Annotations |-> annotations, Ports |-> ports]

SvcPlain == Svc(<<"s", "1">>, Annot(<<"a", ".", "z">>), <<8080, 9090>>)
SvcMany ==
    Svc(<<"s", "2">>,
        AnnotPort(<<"b", ".", "z", ",", "a", ".", "z", " ", ",", "A", ".", "z">>, <<"8", "1">>),
        <<8080>>)
SvcBadPort == Svc(<<"s", "3">>, AnnotPort(<<"b", ".", "z">>, <<"x">>), <<8080>>)
SvcNoPorts == Svc(<<"s", "4">>, Annot(<<"c", ".", "z">>), <<>>)
SvcBlank == Svc(<<"s", "5">>, Annot(<<" ", " ">>), <<8080>>)
SvcNoAnnot == Svc(<<"s", "6">>, [k \in {} |-> <<>>], <<8080>>)
SvcBigPort == Svc(<<"s", "7">>, AnnotPort(<<"c", ".", "z", " ", "a", ".", "z">>, <<"7", "0", "0", "0", "0">>), <<8080>>)
SvcZeroPort == Svc(<<"s", "8">>, AnnotPort(<<"c", ".", "z">>, <<"0">>), <<9090>>)
SvcNegPort == Svc(<<"s", "9">>, AnnotPort(<<"c", ".", "z">>, <<"-", "5">>), <<9090>>)
SvcBigNoPorts == Svc(<<"s", "0">>, AnnotPort(<<"c", ".", "z">>, <<"7", "0", "0", "0", "0">>), <<>>)

ServiceLists ==
    { <<>>, <<SvcPlain>>, <<SvcMany>>, <<SvcPlain, SvcMany>>, <<SvcMany, SvcPlain>>,
      <<SvcBadPort, SvcNoPorts>>, <<SvcBlank, SvcNoAnnot, SvcPlain>>,
      <<SvcBigPort, SvcBadPort>>, <<SvcNoPorts, SvcZeroPort>>, <<SvcNegPort>>,
      <<SvcBigNoPorts, SvcPlain>> }

\* the service lists of the second namespace
ServiceListsB == { <<>>, <<SvcPlain>>, <<SvcMany>>, <<SvcBadPort, SvcNoPorts>> }

NamespaceA == <<"n", "a">>
NamespaceB == <<"n", "b">>
NamespaceNames == { NamespaceA, NamespaceB }

\* a snapshot: whether listing namespaces fails, the namespaces in listing
\* order, and per namespace whether listing its services fails, and its services
Clusters ==
    { [listErr |-> e, names |-> ns, svcErr |-> se, items |-> it] :
        e \in BOOLEAN,
        ns \in MapOrders(NamespaceNames),
        se \in [NamespaceNames -> BOOLEAN],
        it \in { f \in [NamespaceNames -> ServiceLists] : f[NamespaceB] \in ServiceListsB } }

----------------------------------------------------------------------------
(* SyncKube (the state deriver) *)

RECURSIVE InsertSorted(_, _)
InsertSorted(sorted, x) ==
    IF sorted = <<>> THEN <<x>>
    ELSE IF StrLess(x, Head(sorted)) THEN <<x>> \o sorted
    ELSE <<Head(sorted)>> \o InsertSorted(Tail(sorted), x)

\* sort.Strings
RECURSIVE SortStrings(_)
SortStrings(s) == IF s = <<>> THEN <<>> ELSE InsertSorted(SortStrings(Tail(s)), Head(s))

\* chooseServicePort of the sync package
chooseServicePort(svc) ==
    LET has == ServiceUpstreamPortAnnotation \in DOMAIN svc.Annotations
        raw == IF has THEN svc.Annotations[ServiceUpstreamPortAnnotation] ELSE <<>>
    IN  IF has /\ TrimSpace(raw) # <<>>
        THEN Int32(Atoi(TrimSpace(raw)).val)
        ELSE IF Len(svc.Ports) > 0 THEN svc.Ports[1] ELSE 0

\* chooseServicePort of package main
mainChooseServicePort(svc) ==
    LET has == ServiceUpstreamPortAnnotation \in DOMAIN svc.Annotations
        raw == IF has THEN svc.Annotations[ServiceUpstreamPortAnnotation] ELSE <<>>
        a == Atoi(TrimSpace(raw))
    IN  IF has /\ TrimSpace(raw) # <<>> /\ ~(a.err \/ a.val <= 0 \/ a.val > 65535)
        THEN Int32(a.val)
        ELSE IF Len(svc.Ports) > 0 THEN svc.Ports[1] ELSE 0

serviceURL(svcName, namespace, port) ==
    <<"http://", svcName, ".", namespace, ".svc.cluster.local:", port>>

\* the hostnames a service declares: split on commas and white space
rawDomains(hostnamesStr) == Fields(ReplaceAll(hostnamesStr, ",", " "))

\* an inner loop that leaves the service at the first hostname Append rejects
RECURSIVE AppendAllAbort(_, _, _)
AppendAllAbort(m, hosts, service) ==
    IF hosts = <<>> THEN m
    ELSE LET r == SyncStateAppend(m, TrimSpace(Head(hosts)), service) IN
         IF r.err THEN m ELSE AppendAllAbort(r.map, Tail(hosts), service)

\* the inner loop: Append every hostname, skipping the ones Append rejects
RECURSIVE AppendAll(_, _, _)
AppendAll(m, hosts, service) ==
    IF hosts = <<>> THEN m
    ELSE AppendAll(SyncStateAppend(m, TrimSpace(Head(hosts)), service).map, Tail(hosts), service)

\* the body of the loop over the services of one namespace
KubeService(m, namespace, svc) ==
    LET has == ServiceHostnamesAnnotation \in DOMAIN svc.Annotations
        hostnamesStr == IF has THEN svc.Annotations[ServiceHostnamesAnnotation] ELSE <<>>
        port == chooseServicePort(svc)
    IN  IF ~has \/ TrimSpace(hostnamesStr) = <<>> THEN m
        ELSE IF port = 0 THEN m
        ELSE AppendAll(m, rawDomains(hostnamesStr), serviceURL(svc.Name, namespace, port))

RECURSIVE KubeServices(_, _, _)
KubeServices(m, namespace, svcs) ==
    IF svcs = <<>> THEN m
    ELSE KubeServices(KubeService(m, namespace, Head(svcs)), namespace, Tail(svcs))

\* a deriver that stops at the first namespace whose services cannot be listed
RECURSIVE KubeNamespacesAbort(_, _, _)
KubeNamespacesAbort(m, c, namespaces) ==
    IF namespaces = <<>> THEN m
    ELSE LET namespace == Head(namespaces) IN
         IF c.svcErr[namespace]
         THEN m
         ELSE KubeNamespacesAbort(KubeServices(m, namespace, c.items[namespace]), c,
                                  Tail(namespaces))

RECURSIVE KubeNamespaces(_, _, _)
KubeNamespaces(m, c, namespaces) ==
    IF namespaces = <<>> THEN m
    ELSE LET namespace == Head(namespaces) IN
         IF c.svcErr[namespace]
         THEN KubeNamespaces(m, c, Tail(namespaces))
         ELSE KubeNamespaces(KubeServices(m, namespace, c.items[namespace]), c, Tail(namespaces))

\* SyncKube: the error and the SyncState returned
SyncKube(c) ==
    IF c.listErr THEN [err |-> TRUE, state |-> NewSyncState]
    ELSE [err |-> FALSE, state |-> KubeNamespaces(NewSyncState, c, SortStrings(c.names))]

----------------------------------------------------------------------------
(* SyncTunnel (the tunnel publisher) and runSync of package main *)

CatchAll == [Hostname |-> EmptyString, Service |-> <<"http_status:404">>]

\* a publisher that does not sort
SortSliceNone(rules) == { rules }

\* the places where rule x may go into a sorted slice that stays sorted
InsertRule(sorted, x) ==
    { SubSeq(sorted, 1, i) \o <<x>> \o SubSeq(sorted, i + 1, Len(sorted)) :
        i \in { k \in 0..Len(sorted) :
                  /\ k = 0 \/ ~StrLess(x.Hostname, sorted[k].Hostname)
                  /\ k = Len(sorted) \/ ~StrLess(sorted[k + 1].Hostname, x.Hostname) } }

\* sort.Slice by Hostname: not stable, so any sorted rearrangement
RECURSIVE SortSlice(_)
SortSlice(rules) ==
    IF rules = <<>> THEN { <<>> }
    ELSE UNION { InsertRule(sorted, Head(rules)) : sorted \in SortSlice(Tail(rules)) }

\* a publisher that puts the default rule first
WithCatchAllFirst(rules) == <<CatchAll>> \o rules

\* the default rule is appended after sorting
WithCatchAll(rules) == Append(rules, CatchAll)

\* a SyncTunnel that leaves out the first rule of the sorted list
TunnelIngressDropFirst(m) ==
    UNION { { WithCatchAll(IF sorted = <<>> THEN sorted ELSE Tail(sorted)) :
                sorted \in SortSlice([i \in 1..Len(order) |->
                              [Hostname |-> order[i], Service |-> m[order[i]]]]) }
            : order \in MapOrders(DOMAIN m) }

\* the rule lists SyncTunnel may submit for a SyncState
TunnelIngress(m) ==
    UNION { { WithCatchAll(sorted) :
                sorted \in SortSlice([i \in 1..Len(order) |->
                              [Hostname |-> order[i], Service |-> m[order[i]]]]) }
            : order \in MapOrders(DOMAIN m) }

\* the rules runSync collects, in traversal order
RECURSIVE MainRules(_, _, _)
MainRules(namespace, hosts, service) ==
    IF hosts = <<>> THEN <<>>
    ELSE (IF TrimSpace(Head(hosts)) = <<>> THEN <<>>
          ELSE << [Hostname |-> TrimSpace(Head(hosts)), Service |-> service] >>)
         \o MainRules(namespace, Tail(hosts), service)

MainService(namespace, svc) ==
    LET has == ServiceHostnamesAnnotation \in DOMAIN svc.Annotations
        hostnamesStr == IF has THEN svc.Annotations[ServiceHostnamesAnnotation] ELSE <<>>
        port == mainChooseServicePort(svc)
    IN  IF ~has \/ TrimSpace(hostnamesStr) = <<>> THEN <<>>
        ELSE IF port = 0 THEN <<>>
        ELSE MainRules(namespace, rawDomains(hostnamesStr), serviceURL(svc.Name, namespace, port))

RECURSIVE MainServices(_, _)
MainServices(namespace, svcs) ==
    IF svcs = <<>> THEN <<>>
    ELSE MainService(namespace, Head(svcs)) \o MainServices(namespace, Tail(svcs))

RECURSIVE MainNamespaces(_, _)
MainNamespaces(c, namespaces) ==
    IF namespaces = <<>> THEN <<>>
    ELSE (IF c.svcErr[Head(namespaces)] THEN <<>>
          ELSE MainServices(Head(namespaces), c.items[Head(namespaces)]))
         \o MainNamespaces(c, Tail(namespaces))

MaxPuts == 2

KubeIdle ==
    /\ cluster = [listErr |-> TRUE]
    /\ derived = FALSE
    /\ puts = <<>>

KubeInputs ==
    /\ cluster \in Clusters
    /\ derived = FALSE
    /\ puts = <<>>

\* a cycle derives the desired state
SyncKubeStep ==
    /\ ~derived
    /\ Len(puts) < MaxPuts
    /\ LET r == SyncKube(cluster) IN
       /\ ~r.err
       /\ HostToService' = r.state
       /\ derived' = TRUE
    /\ UNCHANGED <<lastAppend, zoneVars, cluster, puts, dnsVars, driverVars, pageVars>>

\* the cycle publishes the derived state: the PUT request is sent
SyncTunnelStep ==
    /\ derived
    /\ \E ingressRules \in TunnelIngress(HostToService) :
           puts' = Append(puts, [by |-> "SyncTunnel", state |-> HostToService,
                                 Ingress |-> ingressRules])
    /\ derived' = FALSE
    /\ UNCHANGED <<stateVars, zoneVars, cluster, dnsVars, driverVars, pageVars>>

\* runSync of package main: derive and publish in one function
RunSyncStep ==
    /\ ~derived
    /\ Len(puts) < MaxPuts
    /\ ~cluster.listErr
    /\ \E sorted \in SortSlice(MainNamespaces(cluster, SortStrings(cluster.names))) :
           puts' = Append(puts, [by |-> "runSync", Ingress |-> WithCatchAll(sorted)])
    /\ UNCHANGED <<stateVars, zoneVars, cluster, derived, dnsVars, driverVars, pageVars>>

----------------------------------------------------------------------------
(* the DNS provider *)

managedCommentMarker == <<"managed", " ", "by", " ", "tunnel-manager">>

CloudFlareTunnelID == <<"t">>

\* target := tunnelID + ".cfargotunnel.com"
target == CloudFlareTunnelID \o <<".", "cfargotunnel", ".", "com">>

\* the same host as target, spelled with an upper-case letter and a final dot
TargetDotted == <<"T", ".", "cfargotunnel", ".", "com", ".">>

OtherContent == <<"o", ".", "w">>

Zone1 == <<"1">>
Zone2 == <<"2">>

ZoneConfigs ==
    { << [ID |-> Zone1, Name |-> <<"z">>], [ID |-> Zone2, Name |-> <<"y", ".", "z">>] >>,
      << [ID |-> Zone1, Name |-> <<"Z">>], [ID |-> Zone2, Name |-> <<"y", ".", "z">>] >>,
      << >> }

Rec(id, zone, type, name, content, comment) ==
    [ID |-> id, Zone |-> zone, Type |-> type, Name |-> name, Content |-> content,
     Comment |-> comment]

RecordPool ==
    << Rec(<<"r", "1">>, Zone1, "CNAME", <<"a", ".", "z">>, target, managedCommentMarker),
       Rec(<<"r", "2">>, Zone1, "CNAME", <<"A", ".", "z", ".">>, OtherContent,
           <<"x", " ">> \o managedCommentMarker),
       Rec(<<"r", "3">>, Zone1, "CNAME", <<"a", ".", "z">>, OtherContent,
           <<"managed", " ", "by", " ", "hand">>),
       Rec(<<"r", "4">>, Zone1, "A", <<"a", ".", "z">>, <<"10.0.0.1">>, managedCommentMarker),
       Rec(<<"r", "5">>, Zone1, "CNAME", <<"b", ".", "z">>, TargetDotted, managedCommentMarker),
       Rec(<<"r", "6">>, Zone1, "AAAA", <<"B", ".", "z">>, <<"::1">>, <<>>),
       Rec(<<"r", "7">>, Zone2, "CNAME", <<"c", ".", "y", ".", "z">>, OtherContent,
           managedCommentMarker),
       Rec(<<"r", "8">>, Zone1, "CNAME", <<"d", ".", "z">>, target, managedCommentMarker),
       Rec(<<"r", "9">>, Zone1, "TXT", <<"b", ".", "z">>, <<"v=spf1">>, managedCommentMarker) >>

MaxRecords == 2

\* the records of the pool at the given places, in the pool's order
RECURSIVE PickRecords(_, _)
PickRecords(places, i) ==
    IF i > Len(RecordPool) THEN <<>>
    ELSE (IF i \in places THEN <<RecordPool[i]>> ELSE <<>>) \o PickRecords(places, i + 1)

RecordSets ==
    { PickRecords(places, 1) :
        places \in { P \in SUBSET (1..Len(RecordPool)) : Cardinality(P) <= MaxRecords } }

MaxHosts == 2

DNSHosts ==
    { <<"a", ".", "z">>, <<"A", ".", "z">>, <<"b", ".", "z">>, <<"c", ".", "y", ".", "z">>,
      <<"a", ".", "z", ".", ".">>, <<"q", ".", "w">> }

DesiredStates ==
    { [h \in K |-> <<"http://", "s1">>] :
        K \in { P \in SUBSET DNSHosts : Cardinality(P) <= MaxHosts } }

isManaged(rec) == Contains(rec.Comment, managedCommentMarker)

\* the records of a zone
ZoneRecords(recs, zoneID) == SelectSeq(recs, LAMBDA r : r.Zone = zoneID)

\* DELETE /zones/<zone>/dns_records/<id>, applied
ProviderDelete(recs, zoneID, recordID) ==
    SelectSeq(recs, LAMBDA r : ~(r.Zone = zoneID /\ r.ID = recordID))

\* PATCH /zones/<zone>/dns_records/<id> with content and comment, applied
ProviderUpdate(recs, zoneID, recordID, content, comment) ==
    [i \in 1..Len(recs) |->
        IF recs[i].Zone = zoneID /\ recs[i].ID = recordID
        THEN [recs[i] EXCEPT !.Content = content, !.Comment = comment]
        ELSE recs[i]]

\* POST /zones/<zone>/dns_records, applied
ProviderCreate(recs, zoneID, id, hostname, content, comment) ==
    Append(recs, Rec(id, zoneID, "CNAME", hostname, content, comment))

----------------------------------------------------------------------------
(* SyncDNS (dns.go) *)

MaxPasses == 2
MaxFaults == 1

Idle == [pc |-> "idle", err |-> FALSE, prevErr |-> FALSE]

\* loadZones: the zones of all pages
loadZones == zones

\* loadDNSRecords: the A, AAAA and CNAME records of all pages of a zone
loadDNSRecords(zoneID) ==
    SelectSeq(ZoneRecords(records, zoneID), LAMBDA r : r.Type \in {"A", "AAAA", "CNAME"})

RECURSIVE ZoneIDs(_, _)
ZoneIDs(m, zs) ==
    IF zs = <<>> THEN m ELSE ZoneIDs(MapPut(m, Head(zs).Name, Head(zs).ID), Tail(zs))

\* a distribution that ends at the first hostname that matches no zone
RECURSIVE DistributeStopAtUnmatched(_, _, _)
DistributeStopAtUnmatched(zoneHosts, order, zs) ==
    IF order = <<>> THEN zoneHosts
    ELSE LET hostNorm == normalizeHost(Head(order))
             zoneName == bestMatchingZone(hostNorm, zs)
         IN  IF hostNorm = EmptyString \/ zoneName = EmptyString
             THEN zoneHosts
             ELSE DistributeStopAtUnmatched(
                      MapPut(zoneHosts, zoneName,
                             Append(MapGet(zoneHosts, zoneName, <<>>), hostNorm)),
                      Tail(order), zs)

\* a distribution that gives every zone of the account an entry, with or
\* without hostnames
RECURSIVE DistributeAll(_, _, _)
DistributeAll(zoneHosts, order, zs) ==
    IF order = <<>>
    THEN [n \in DOMAIN zoneHosts \cup { zs[i].Name : i \in 1..Len(zs) } |->
             MapGet(zoneHosts, n, <<>>)]
    ELSE LET hostNorm == normalizeHost(Head(order))
             zoneName == bestMatchingZone(hostNorm, zs)
         IN  IF hostNorm = EmptyString \/ zoneName = EmptyString
             THEN DistributeAll(zoneHosts, Tail(order), zs)
             ELSE DistributeAll(MapPut(zoneHosts, zoneName,
                                       Append(MapGet(zoneHosts, zoneName, <<>>), hostNorm)),
                                Tail(order), zs)

\* the loop that distributes the hostnames across zones, in a given map order
RECURSIVE Distribute(_, _, _)
Distribute(zoneHosts, order, zs) ==
    IF order = <<>> THEN zoneHosts
    ELSE LET hostNorm == normalizeHost(Head(order))
             zoneName == bestMatchingZone(hostNorm, zs)
         IN  IF hostNorm = EmptyString \/ zoneName = EmptyString
             THEN Distribute(zoneHosts, Tail(order), zs)
             ELSE Distribute(MapPut(zoneHosts, zoneName,
                                    Append(MapGet(zoneHosts, zoneName, <<>>), hostNorm)),
                             Tail(order), zs)

\* the two indexes built from the records of a zone
RECURSIVE CnameIndex(_, _)
CnameIndex(cnameByName, recs) ==
    IF recs = <<>> THEN cnameByName
    ELSE CnameIndex(IF Head(recs).Type = "CNAME"
                    THEN MapPut(cnameByName, normalizeHost(Head(recs).Name), Head(recs))
                    ELSE cnameByName,
                    Tail(recs))

AddressIndex(recs) ==
    { normalizeHost(recs[i].Name) : i \in { j \in 1..Len(recs) : recs[j].Type \in {"A", "AAAA"} } }

\* a reconciler that logs a failed call and carries on where it was
FinishedKeepGoing(err) ==
    IF err THEN dns ELSE [pc |-> "done", err |-> FALSE, prevErr |-> dns.prevErr]

\* SyncDNS returns, with an error or with nil
Finished(err) == [pc |-> "done", err |-> err, prevErr |-> dns.prevErr]

\* a reconciler for which an account without zones is an error
NoZonesError(prev) == [pc |-> "done", err |-> TRUE, prevErr |-> prev]

\* len(zones) == 0: "nothing to sync", return nil
NoZonesResult(prev) == [pc |-> "done", err |-> FALSE, prevErr |-> prev]

\* a call sent to the provider, with what the zone held when it was sent
Call(op, zoneID, id, name, ok) ==
    [op |-> op, zone |-> zoneID, id |-> id, name |-> name, ok |-> ok,
     held |-> ZoneRecords(records, zoneID)]

\* SyncDNS up to the loop over zones: the empty-state return, loadZones, the
\* zone index and the distribution of hostnames
DNSBegin ==
    /\ dns.pc \in {"idle", "done"}
    /\ pass < MaxPasses
    /\ pass' = pass + 1
    /\ calls' = <<>>
    /\ LET prev == IF dns.pc = "done" THEN dns.err ELSE FALSE IN
       \/ /\ SyncStateLen(HostToService) = 0
          /\ dns' = [pc |-> "done", err |-> FALSE, prevErr |-> prev]
          /\ asked' = FALSE
          /\ UNCHANGED faults
       \/ /\ SyncStateLen(HostToService) # 0
          /\ faults < MaxFaults
          /\ faults' = faults + 1
          /\ asked' = TRUE
          /\ dns' = [pc |-> "done", err |-> TRUE, prevErr |-> prev]
       \/ /\ SyncStateLen(HostToService) # 0
          /\ UNCHANGED faults
          /\ asked' = TRUE
          /\ IF Len(loadZones) = 0
             THEN dns' = NoZonesResult(prev)
             ELSE \E order \in MapOrders(DOMAIN HostToService) :
                      LET zoneHosts == Distribute(EmptyMap, order, loadZones) IN
                      dns' = [pc |-> "zones", err |-> FALSE, prevErr |-> prev,
                              zoneIDByName |-> ZoneIDs(EmptyMap, loadZones),
                              zoneHosts |-> zoneHosts,
                              zonesLeft |-> DOMAIN zoneHosts]
    /\ listed' = {}
    /\ UNCHANGED <<stateVars, zoneVars, kubeVars, driverVars, pageVars, zones, records, records0,
                   nextID>>

InZones(left) ==
    [pc |-> "zones", err |-> FALSE, prevErr |-> dns.prevErr,
     zoneIDByName |-> dns.zoneIDByName, zoneHosts |-> dns.zoneHosts, zonesLeft |-> left]

\* inside syncZoneRecords
InZone(pc, zoneID, zoneName, hosts, cnameByName, hasAorAAAA, seen, cnamesLeft, i) ==
    [pc |-> pc, err |-> FALSE, prevErr |-> dns.prevErr,
     zoneIDByName |-> dns.zoneIDByName, zoneHosts |-> dns.zoneHosts,
     zonesLeft |-> dns.zonesLeft,
     zoneID |-> zoneID, zoneName |-> zoneName, hosts |-> hosts,
     cnameByName |-> cnameByName, hasAorAAAA |-> hasAorAAAA, seen |-> seen,
     cnamesLeft |-> cnamesLeft, i |-> i]

\* the loop over zoneHosts picks a zone: the zone id lookup, and the start of
\* syncZoneRecords: loadDNSRecords and the indexes
DNSZone ==
    /\ dns.pc = "zones"
    /\ \E zoneName \in dns.zonesLeft :
           LET zoneID == MapGet(dns.zoneIDByName, zoneName, EmptyString) IN
           \/ /\ zoneID = EmptyString
              /\ dns' = InZones(dns.zonesLeft \ {zoneName})
              /\ UNCHANGED <<faults, listed>>
           \/ /\ zoneID # EmptyString
              /\ faults < MaxFaults
              /\ faults' = faults + 1
              /\ listed' = listed \cup {zoneID}
              /\ dns' = Finished(TRUE)
           \/ /\ zoneID # EmptyString
              /\ UNCHANGED faults
              /\ listed' = listed \cup {zoneID}
              /\ LET recs == loadDNSRecords(zoneID)
                     cnameByName == CnameIndex(EmptyMap, recs)
                 IN  dns' = InZone("cnames", zoneID, zoneName, dns.zoneHosts[zoneName],
                                   cnameByName, AddressIndex(recs), {},
                                   DOMAIN cnameByName, 1)
    /\ UNCHANGED <<stateVars, zoneVars, kubeVars, driverVars, pageVars, asked, zones, records, records0, calls, pass,
                   nextID>>

\* the loop over zoneHosts has visited every zone: SyncDNS returns nil
DNSZonesDone ==
    /\ dns.pc = "zones"
    /\ dns.zonesLeft = {}
    /\ dns' = Finished(FALSE)
    /\ UNCHANGED <<stateVars, zoneVars, kubeVars, driverVars, pageVars, asked, zones, records, records0, calls,
                   listed, pass, faults, nextID>>

AfterCname(name, seen) ==
    InZone("cnames", dns.zoneID, dns.zoneName, dns.hosts, dns.cnameByName, dns.hasAorAAAA,
           seen, dns.cnamesLeft \ {name}, 1)

\* a reconciler that deletes every CNAME that is not desired, managed or not
ShouldDeleteAny(shouldBeManaged, managed) == ~shouldBeManaged

\* case 1 of the switch: a managed CNAME of a hostname not in the SyncState
ShouldDelete(shouldBeManaged, managed) == ~shouldBeManaged /\ managed

\* a reconciler that updates every managed CNAME of a desired hostname
NeedsUpdateAlways(rec) == TRUE

\* the update test of case 3
NeedsUpdate(rec) == ~equalDNSHost(rec.Content, target)

\* one iteration of the loop over cnameByName: the switch on desired and managed
DNSCname ==
    /\ dns.pc = "cnames"
    /\ \E name \in dns.cnamesLeft :
           LET rec == dns.cnameByName[name]
               shouldBeManaged == name \in { dns.hosts[k] : k \in 1..Len(dns.hosts) }
               managed == isManaged(rec)
           IN  IF ShouldDelete(shouldBeManaged, managed)
               THEN \/ /\ calls' = Append(calls, Call("delete", dns.zoneID, rec.ID, name, TRUE))
                       /\ records' = ProviderDelete(records, dns.zoneID, rec.ID)
                       /\ dns' = AfterCname(name, dns.seen)
                       /\ UNCHANGED faults
                    \/ /\ faults < MaxFaults
                       /\ faults' = faults + 1
                       /\ calls' = Append(calls, Call("delete", dns.zoneID, rec.ID, name, FALSE))
                       /\ dns' = Finished(TRUE)
                       /\ UNCHANGED records
               ELSE IF shouldBeManaged /\ managed /\ NeedsUpdate(rec)
               THEN \/ /\ calls' = Append(calls, Call("update", dns.zoneID, rec.ID, name, TRUE))
                       /\ records' = ProviderUpdate(records, dns.zoneID, rec.ID, target,
                                                    managedCommentMarker)
                       /\ dns' = AfterCname(name, dns.seen \cup {name})
                       /\ UNCHANGED faults
                    \/ /\ faults < MaxFaults
                       /\ faults' = faults + 1
                       /\ calls' = Append(calls, Call("update", dns.zoneID, rec.ID, name, FALSE))
                       /\ dns' = Finished(TRUE)
                       /\ UNCHANGED records
               ELSE /\ dns' = AfterCname(name, IF shouldBeManaged
                                               THEN dns.seen \cup {name} ELSE dns.seen)
                    /\ UNCHANGED <<records, calls, faults>>
    /\ UNCHANGED <<stateVars, zoneVars, kubeVars, driverVars, pageVars, asked, zones, records0, listed, pass,
                   nextID>>

\* the loop over cnameByName is over: the loop that creates starts
DNSCnamesDone ==
    /\ dns.pc = "cnames"
    /\ dns.cnamesLeft = {}
    /\ dns' = [dns EXCEPT !.pc = "create", !.i = 1]
    /\ UNCHANGED <<stateVars, zoneVars, kubeVars, driverVars, pageVars, asked, zones, records, records0, calls,
                   listed, pass, faults, nextID>>

\* a reconciler that creates although an address record exists
BlockedBySeenOnly(host, seen, hasAorAAAA) == host \in seen

\* the two tests that skip a hostname in the loop that creates
Blocked(host, seen, hasAorAAAA) == host \in seen \/ host \in hasAorAAAA

\* one iteration of the loop over hosts: skip, or create a managed CNAME
DNSCreate ==
    /\ dns.pc = "create"
    /\ dns.i <= Len(dns.hosts)
    /\ LET host == dns.hosts[dns.i] IN
       IF Blocked(host, dns.seen, dns.hasAorAAAA)
       THEN /\ dns' = [dns EXCEPT !.i = dns.i + 1]
            /\ UNCHANGED <<records, calls, faults, nextID>>
       ELSE \/ /\ calls' = Append(calls, Call("create", dns.zoneID, EmptyString, host, TRUE))
               /\ records' = ProviderCreate(records, dns.zoneID, <<"n", nextID>>, host,
                                            target, managedCommentMarker)
               /\ nextID' = nextID + 1
               /\ dns' = [dns EXCEPT !.i = dns.i + 1]
               /\ UNCHANGED faults
            \/ /\ faults < MaxFaults
               /\ faults' = faults + 1
               /\ calls' = Append(calls, Call("create", dns.zoneID, EmptyString, host, FALSE))
               /\ dns' = Finished(TRUE)
               /\ UNCHANGED <<records, nextID>>
    /\ UNCHANGED <<stateVars, zoneVars, kubeVars, driverVars, pageVars, asked, zones, records0, listed, pass>>

\* syncZoneRecords returns nil: the loop over zoneHosts goes on
DNSZoneDone ==
    /\ dns.pc = "create"
    /\ dns.i > Len(dns.hosts)
    /\ dns' = InZones(dns.zonesLeft \ {dns.zoneName})
    /\ UNCHANGED <<stateVars, zoneVars, kubeVars, driverVars, pageVars, asked, zones, records, records0, calls,
                   listed, pass, faults, nextID>>

DNSIdle ==
    /\ zones = <<>>
    /\ records = <<>>
    /\ records0 = <<>>
    /\ dns = Idle
    /\ calls = <<>>
    /\ listed = {}
    /\ asked = FALSE
    /\ pass = 0
    /\ faults = 0
    /\ nextID = 1

DNSInputs ==
    /\ zones \in ZoneConfigs
    /\ records \in RecordSets
    /\ records0 = records
    /\ dns = Idle
    /\ calls = <<>>
    /\ listed = {}
    /\ asked = FALSE
    /\ pass = 0
    /\ faults = 0
    /\ nextID = 1

----------------------------------------------------------------------------
(* loadZones and loadDNSRecords: the loop over pages (dns.go) *)

MaxPages == 3

\* what a page of zones, and a page of records, may hold
ZoneLayouts == { <<>>, <<"zone">>, <<"zone", "zone">> }
RecordLayouts == { <<>>, <<"CNAME">>, <<"A", "TXT">>, <<"TXT", "AAAA">> }

\* no call of loadZones or loadDNSRecords is modelled
PagerOff == [pc |-> "off"]

\* the call starts: var items, page := 1
PagerStart(fn, total, layout, failAt) ==
    [fn |-> fn, total |-> total, layout |-> layout, failAt |-> failAt,
     pc |-> "loop", page |-> 1, requested |-> <<>>, items |-> <<>>, err |-> FALSE]

\* the provider's answer to the request for page p: the page's items, the
\* requested page number echoed, and the number of pages
Response(p) ==
    [Result |-> IF p \in DOMAIN pager.layout
                THEN [i \in 1..Len(pager.layout[p]) |->
                         [Page |-> p, Index |-> i, Type |-> pager.layout[p][i]]]
                ELSE <<>>,
     Page |-> p,
     TotalPages |-> pager.total]

\* loadZones appends the whole result; loadDNSRecords the A, AAAA and CNAME records
Keep(fn, result) ==
    IF fn = "loadZones" THEN result
    ELSE SelectSeq(result, LAMBDA r : r.Type \in {"A", "AAAA", "CNAME"})

\* a loop that goes on until the page number is past the number of pages
LastPageStrict(page, totalPages) == page > totalPages

\* the test that ends the loop
LastPage(page, totalPages) == page >= totalPages \/ totalPages = 0

\* one iteration of the loop: the request fails, or its result is appended and
\* the loop ends or goes to the next page
PageStep ==
    /\ pager.pc = "loop"
    /\ LET requested == Append(pager.requested, pager.page)
           resp == Response(pager.page)
       IN  IF Len(requested) = pager.failAt
           THEN pager' = [pager EXCEPT !.requested = requested, !.items = <<>>,
                                       !.err = TRUE, !.pc = "returned"]
           ELSE IF LastPage(resp.Page, resp.TotalPages)
           THEN pager' = [pager EXCEPT !.requested = requested,
                                       !.items = @ \o Keep(pager.fn, resp.Result),
                                       !.pc = "returned"]
           ELSE pager' = [pager EXCEPT !.requested = requested,
                                       !.items = @ \o Keep(pager.fn, resp.Result),
                                       !.page = @ + 1]
    /\ UNCHANGED <<stateVars, zoneVars, kubeVars, dnsVars, driverVars>>

PagerIdle == pager = PagerOff

PagerInputs ==
    pager \in
        { PagerStart("loadZones", total, layout, failAt) :
            total \in 0..MaxPages, layout \in [1..MaxPages -> ZoneLayouts],
            failAt \in 0..MaxPages }
        \cup
        { PagerStart("loadDNSRecords", total, layout, failAt) :
            total \in 0..MaxPages, layout \in [1..MaxPages -> RecordLayouts],
            failAt \in 0..MaxPages }

----------------------------------------------------------------------------
(* main: the polling loop (main.go) *)

\* no polling loop runs
LoopOff == [pc |-> "off"]

\* main has built its clients and the context; the initial sync is next
LoopStart ==
    [pc |-> "start", ctxDone |-> FALSE, signalAt |-> "none", inProgress |-> 0,
     timer |-> "off", lastErr |-> FALSE, lateStart |-> FALSE]

\* a driver whose timer keeps running while a cycle is in progress
StartCycleTicker(l) ==
    [l EXCEPT !.pc = "sync", !.inProgress = @ + 1, !.timer = "armed",
              !.lateStart = @ \/ (l.signalAt = "select")]

\* runSync is called: at the initial sync, or in the case <-time.After of the
\* select, whose timer has fired and is gone
StartCycle(l) ==
    [l EXCEPT !.pc = "sync", !.inProgress = @ + 1, !.timer = "off",
              !.lateStart = @ \/ (l.signalAt = "select")]

\* a driver that gives up after a failed cycle
AfterCycleFatal(l, err) ==
    [l EXCEPT !.pc = IF err THEN "exited" ELSE "select", !.inProgress = @ - 1,
              !.timer = IF err THEN "off" ELSE "armed", !.lastErr = err]

\* runSync has returned: the error is logged, the loop enters the select, and
\* time.After starts the timer of the next cycle
AfterCycle(l, err) ==
    [l EXCEPT !.pc = "select", !.inProgress = @ - 1, !.timer = "armed", !.lastErr = err]

\* a select without the case <-ctx.Done()
CanTickAlways(l) == l.pc = "select" /\ l.timer = "armed"

\* the select is blocked on both channels and the timer fires first; once the
\* context is done, its case has been chosen
CanTick(l) == l.pc = "select" /\ l.timer = "armed" /\ ~l.ctxDone

\* SIGINT or SIGTERM: the context of signal.NotifyContext is done
Signal ==
    /\ loop.pc \in {"start", "sync", "select"}
    /\ ~loop.ctxDone
    /\ loop' = [loop EXCEPT !.ctxDone = TRUE, !.signalAt = loop.pc]
    /\ UNCHANGED <<stateVars, zoneVars, kubeVars, dnsVars, pageVars>>

\* the initial sync is called
InitialSync ==
    /\ loop.pc = "start"
    /\ loop' = StartCycle(loop)
    /\ UNCHANGED <<stateVars, zoneVars, kubeVars, dnsVars, pageVars>>

\* runSync runs and returns: listing the namespaces fails, or the PUT fails, or
\* the ingress rules are submitted
RunSyncReturn ==
    /\ loop.pc = "sync"
    /\ \/ /\ cluster.listErr
          /\ loop' = AfterCycle(loop, TRUE)
          /\ UNCHANGED puts
       \/ /\ ~cluster.listErr
          /\ loop' = AfterCycle(loop, TRUE)
          /\ UNCHANGED puts
       \/ /\ ~cluster.listErr
          /\ \E sorted \in SortSlice(MainNamespaces(cluster, SortStrings(cluster.names))) :
                 puts' = Append(puts, [by |-> "runSync", Ingress |-> WithCatchAll(sorted)])
          /\ loop' = AfterCycle(loop, FALSE)
    /\ UNCHANGED <<stateVars, zoneVars, cluster, derived, dnsVars, pageVars>>

\* case <-time.After(config.SyncInterval): the next cycle is called
TimerTick ==
    /\ CanTick(loop)
    /\ Len(puts) < MaxPuts
    /\ loop' = StartCycle(loop)
    /\ UNCHANGED <<stateVars, zoneVars, kubeVars, dnsVars, pageVars>>

\* case <-ctx.Done(): main returns
Shutdown ==
    /\ loop.pc = "select"
    /\ loop.ctxDone
    /\ loop' = [loop EXCEPT !.pc = "exited", !.timer = "off"]
    /\ UNCHANGED <<stateVars, zoneVars, kubeVars, dnsVars, pageVars>>

DriverIdle == loop = LoopOff

DriverInputs == loop = LoopStart

----------------------------------------------------------------------------
(* SyncState.Append *)

\* C6: Append on a hostname already present returns an error and leaves the
\* whole mapping unchanged; on a hostname not present it returns no error,
\* adds exactly that entry, changes no other entry, and Len grows by one.
C6_AppendContract ==
    lastAppend.called =>
        LET before == lastAppend.before
            h == lastAppend.hostname
        IN  IF h \in DOMAIN before
            THEN lastAppend.err /\ HostToService = before
            ELSE /\ ~lastAppend.err
                 /\ DOMAIN HostToService = DOMAIN before \cup {h}
                 /\ HostToService[h] = lastAppend.service
                 /\ \A k \in DOMAIN before : HostToService[k] = before[k]
                 /\ SyncStateLen(HostToService) = SyncStateLen(before) + 1

\* an Append of a present hostname with another target was rejected, after an
\* earlier Append had added a second hostname
C6_Witness ==
    /\ lastAppend.called
    /\ lastAppend.err
    /\ lastAppend.hostname \in DOMAIN lastAppend.before
    /\ lastAppend.before[lastAppend.hostname] # lastAppend.service
    /\ SyncStateLen(HostToService) = 2

\* C7: no two keys of SyncState are equal after normalization, and an Append
\* of a hostname that differs from an existing key only by case or a trailing
\* dot is rejected.
C7_InjectiveNormalized ==
    /\ \A k1, k2 \in DOMAIN HostToService :
           normalizeHost(k1) = normalizeHost(k2) => k1 = k2
    /\ lastAppend.called =>
           ((\E k \in DOMAIN lastAppend.before :
                 normalizeHost(k) = normalizeHost(lastAppend.hostname))
             => lastAppend.err)

----------------------------------------------------------------------------
(* bestMatchingZone *)

\* name equals hostname or is a suffix of it that starts right after a dot
AtDotBoundary(hostname, name) ==
    \/ hostname = name
    \/ /\ Len(hostname) > Len(name)
       /\ \A i \in 1..Len(name) : hostname[Len(hostname) - Len(name) + i] = name[i]
       /\ hostname[Len(hostname) - Len(name)] = "."

MatchingNames(hostname, zs) ==
    { normalizeHost(zs[i].Name) : i \in { j \in 1..Len(zs) :
          AtDotBoundary(normalizeHost(hostname), normalizeHost(zs[j].Name)) } }

----------------------------------------------------------------------------
(* the tunnel publisher *)

\* C9: every ingress list submitted contains exactly one rule without a
\* hostname, that rule has service http_status:404 and is the last element,
\* the rules before it are in ascending hostname order, and for an empty
\* SyncState the list is that single rule.
C9_CatchAll ==
    \A p \in 1..Len(puts) :
        LET rules == puts[p].Ingress
            n == Len(rules)
        IN  /\ n >= 1
            /\ rules[n].Hostname = EmptyString
            /\ rules[n].Service = <<"http_status:404">>
            /\ \A i \in 1..(n - 1) : rules[i].Hostname # EmptyString
            /\ \A i, j \in 1..(n - 1) :
                   i < j => ~StrLess(rules[j].Hostname, rules[i].Hostname)
            /\ (puts[p].by = "SyncTunnel" /\ SyncStateLen(puts[p].state) = 0)
                   => rules = <<CatchAll>>

\* SyncTunnel has submitted a list of three hostnames and the default rule,
\* and runSync a list of at least that length
C9_Witness ==
    /\ \E p \in 1..Len(puts) : puts[p].by = "SyncTunnel" /\ Len(puts[p].Ingress) = 4
    /\ \E p \in 1..Len(puts) : puts[p].by = "runSync" /\ Len(puts[p].Ingress) >= 4

\* C10: for a fixed cluster snapshot, all cycles submit the identical ingress
\* rule list, whatever the order in which the SyncState map is iterated.
C10_TunnelDeterminism ==
    \A p, q \in 1..Len(puts) :
        (puts[p].by = "SyncTunnel" /\ puts[q].by = "SyncTunnel")
            => puts[p].Ingress = puts[q].Ingress

\* two cycles have published a SyncState of at least three hostnames
C10_Witness ==
    /\ Len(puts) = 2
    /\ puts[1].by = "SyncTunnel"
    /\ puts[2].by = "SyncTunnel"
    /\ SyncStateLen(puts[2].state) >= 3

----------------------------------------------------------------------------
(* the DNS reconciler *)

Desired == DOMAIN HostToService

Made(op) == { k \in 1..Len(calls) : calls[k].op = op }

\* at most one CNAME per normalized name in each zone
OneCnamePerName(recs) ==
    \A i, j \in 1..Len(recs) :
        (/\ recs[i].Type = "CNAME"
         /\ recs[j].Type = "CNAME"
         /\ recs[i].Zone = recs[j].Zone
         /\ equalDNSHost(recs[i].Name, recs[j].Name)) => i = j

\* normalizing a normalized key changes nothing (no doubled final dot)
StableKeys == \A h \in Desired : normalizeHost(normalizeHost(h)) = normalizeHost(h)

\* C1 as stated: whatever the SyncState and the records, when the first pass
\* has completed without error, the second pass issues no create, update or
\* delete call.
C1_Idempotent == (pass = 2 /\ ~dns.prevErr) => calls = <<>>

\* idempotence on well-formed input: the same, for a SyncState whose
\* normalized keys are stable under normalization and records that held at
\* most one CNAME per normalized name in each zone before the first pass.
IdempotentOnStableInput ==
    (pass = 2 /\ ~dns.prevErr /\ StableKeys /\ OneCnamePerName(records0))
        => calls = <<>>

\* the second pass has returned after a first pass that changed the records
IdempotentOnStableInputCase ==
    /\ pass = 2
    /\ dns.pc = "done"
    /\ ~dns.err
    /\ ~dns.prevErr
    /\ StableKeys
    /\ OneCnamePerName(records0)
    /\ Len(records0) = 2
    /\ \A i \in 1..2 : i <= Len(records) => records[i] # records0[i]
    /\ Len(records) = 2

\* the zone ids of the account
AccountZoneIDs == { zones[z].ID : z \in 1..Len(zones) }

\* C2: after SyncDNS returns without error, no zone of the account holds a
\* managed CNAME whose name is not a desired hostname.
C2_OrphanCleanup ==
    (dns.pc = "done" /\ ~dns.err) =>
        \A i \in 1..Len(records) :
            (/\ records[i].Zone \in AccountZoneIDs
             /\ records[i].Type = "CNAME"
             /\ isManaged(records[i]))
                => \E h \in Desired : equalDNSHost(records[i].Name, h)

\* C3: no update or delete call targets an A or AAAA record, nor a CNAME
\* whose comment does not contain the marker.
C3_Ownership ==
    \A k \in Made("update") \cup Made("delete") :
        \A i \in 1..Len(calls[k].held) :
            calls[k].held[i].ID = calls[k].id
                => calls[k].held[i].Type = "CNAME" /\ isManaged(calls[k].held[i])

\* a pass has deleted or updated a record in a zone that holds an unmanaged
\* CNAME of a desired hostname, and that CNAME is still there as it was
C3_Witness ==
    /\ dns.pc = "done"
    /\ \E k \in Made("update") \cup Made("delete") :
           \E i \in 1..Len(calls[k].held) :
               LET r == calls[k].held[i] IN
               /\ r.Type = "CNAME"
               /\ ~isManaged(r)
               /\ \E h \in Desired : equalDNSHost(r.Name, h)
               /\ \E j \in 1..Len(records) : records[j] = r

\* C4: no create call is issued for a hostname for which the zone already
\* holds an A, AAAA or CNAME record with the same normalized name.
C4_ConflictAvoidance ==
    \A k \in Made("create") :
        \A i \in 1..Len(calls[k].held) :
            calls[k].held[i].Type \in {"A", "AAAA", "CNAME"}
                => ~equalDNSHost(calls[k].held[i].Name, calls[k].name)

\* the zones a hostname matches
ZonesOf(h) ==
    { i \in 1..Len(zones) :
        /\ normalizeHost(h) # EmptyString
        /\ normalizeHost(zones[i].Name) = bestMatchingZone(normalizeHost(h), zones) }

InZoneNamed(i, h) ==
    { j \in 1..Len(records) :
        records[j].Zone = zones[i].ID /\ equalDNSHost(records[j].Name, normalizeHost(h)) }

\* C5: after SyncDNS returns without error, every desired hostname that
\* matches a zone and has neither an A/AAAA record nor an unmanaged CNAME in
\* that zone has a managed CNAME there whose content equals the target up to
\* case and final dot.
C5_Convergence ==
    (dns.pc = "done" /\ ~dns.err) =>
        \A h \in Desired : \A i \in ZonesOf(h) :
            (\A j \in InZoneNamed(i, h) :
                 /\ records[j].Type \notin {"A", "AAAA"}
                 /\ records[j].Type = "CNAME" => isManaged(records[j]))
            => \E j \in InZoneNamed(i, h) :
                   /\ records[j].Type = "CNAME"
                   /\ isManaged(records[j])
                   /\ equalDNSHost(records[j].Content, target)

----------------------------------------------------------------------------
(* failures of provider calls *)

\* the ids of the zones to which SyncDNS assigns a desired hostname and whose
\* id it finds
AssignedZoneIDs ==
    { zones[i].ID : i \in { z \in 1..Len(zones) :
        \E h \in Desired :
            /\ normalizeHost(h) # EmptyString
            /\ zones[z].Name = bestMatchingZone(normalizeHost(h), zones) } }

\* the last call of the pass has failed
LastCallFailed == calls # <<>> /\ ~calls[Len(calls)].ok

\* C13: when a create, update or delete call has failed and SyncDNS has
\* returned, every zone that has desired hostnames has been reconciled: its
\* records have been asked for.
C13_ZoneIsolation ==
    (dns.pc = "done" /\ LastCallFailed) => AssignedZoneIDs \subseteq listed

\* the effect of a call that succeeded is in the records
Applied(c) ==
    IF c.op = "delete"
    THEN \A i \in 1..Len(records) : ~(records[i].Zone = c.zone /\ records[i].ID = c.id)
    ELSE IF c.op = "update"
    THEN \E i \in 1..Len(records) :
             /\ records[i].Zone = c.zone
             /\ records[i].ID = c.id
             /\ records[i].Content = target
             /\ records[i].Comment = managedCommentMarker
    ELSE \E i \in 1..Len(records) :
             /\ records[i].Zone = c.zone
             /\ records[i].Type = "CNAME"
             /\ records[i].Name = c.name
             /\ records[i].Content = target
             /\ records[i].Comment = managedCommentMarker

\* C14: a failed create, update or delete call is the last call of the pass,
\* SyncDNS has returned an error, and every call that succeeded before it, in
\* that zone or in an earlier one, still has its effect in the records.
C14_FailStop ==
    \A k \in 1..Len(calls) :
        IF calls[k].ok
        THEN Applied(calls[k])
        ELSE k = Len(calls) /\ dns.pc = "done" /\ dns.err

\* SyncDNS has returned an error after a call failed in one zone, and a call
\* made before it in another zone has its effect in the records
C14_Witness ==
    /\ dns.pc = "done"
    /\ dns.err
    /\ Len(calls) >= 2
    /\ LastCallFailed
    /\ calls[1].ok
    /\ calls[1].zone # calls[Len(calls)].zone
    /\ Applied(calls[1])

\* C20: when the account has no zone and zone discovery succeeds, SyncDNS has
\* returned without error, has asked for the records of no zone and has made
\* no create, update or delete call.
C20_ZeroZones ==
    (pass >= 1 /\ faults = 0 /\ zones = <<>>) =>
        /\ dns.pc = "done"
        /\ ~dns.err
        /\ listed = {}
        /\ calls = <<>>

\* SyncDNS has returned for a SyncState with hostnames, an account without
\* zones and a provider that holds records
C20_Witness ==
    /\ pass >= 1
    /\ faults = 0
    /\ zones = <<>>
    /\ dns.pc = "done"
    /\ SyncStateLen(HostToService) > 0
    /\ records # <<>>

----------------------------------------------------------------------------
(* the state deriver *)

\* the services SyncKube sees: those of the namespaces whose listing succeeds
Visible ==
    { s \in UNION { { [ns |-> n, svc |-> cluster.items[n][i]] :
                        i \in 1..Len(cluster.items[n]) } : n \in NamespaceNames } :
        ~cluster.svcErr[s.ns] }

\* the hostnames a service declares
HostnamesOf(svc) ==
    IF ServiceHostnamesAnnotation \in DOMAIN svc.Annotations
    THEN LET d == rawDomains(svc.Annotations[ServiceHostnamesAnnotation]) IN
         { d[i] : i \in 1..Len(d) }
    ELSE {}

\* the port annotation parses as an integer in [1, 65535]
ValidPortAnnotation(svc) ==
    /\ ServiceUpstreamPortAnnotation \in DOMAIN svc.Annotations
    /\ LET a == Atoi(TrimSpace(svc.Annotations[ServiceUpstreamPortAnnotation])) IN
       ~a.err /\ a.val >= 1 /\ a.val <= 65535

\* the port of the priority rule, for a service with a declared port
ExpectedPort(svc) ==
    IF ValidPortAnnotation(svc)
    THEN Atoi(TrimSpace(svc.Annotations[ServiceUpstreamPortAnnotation])).val
    ELSE svc.Ports[1]

\* the entries of the SyncState that point at a service
EntriesOf(s) ==
    { h \in DOMAIN HostToService :
        HostToService[h][2] = s.svc.Name /\ HostToService[h][4] = s.ns }

\* C11: in the SyncState that SyncKube returns, a service with at least one
\* declared port is never skipped, and every entry that points at it carries
\* the port annotation's value if that is an integer in [1, 65535] and the
\* first declared port otherwise.
C11_PortFallback ==
    derived =>
        \A s \in Visible :
            Len(s.svc.Ports) > 0 =>
                /\ HostnamesOf(s.svc) \subseteq DOMAIN HostToService
                /\ \A h \in EntriesOf(s) : HostToService[h][6] = ExpectedPort(s.svc)

\* C12: in the SyncState that SyncKube returns, no entry points at a service
\* that has neither a valid port annotation nor a declared port.
C12_NoPortSkipped ==
    derived =>
        \A s \in Visible :
            (~ValidPortAnnotation(s.svc) /\ Len(s.svc.Ports) = 0) => EntriesOf(s) = {}

\* the hostnames the services of one namespace declare, port or no port aside
NamespaceKeys(n) == DOMAIN KubeServices(NewSyncState, n, cluster.items[n])

\* C18: SyncKube returns an error exactly when listing the namespaces fails;
\* the SyncState it returns holds the hostnames of every namespace whose
\* services could be listed, and nothing of a namespace whose listing failed.
C18_PartialFailure ==
    /\ SyncKube(cluster).err = cluster.listErr
    /\ derived =>
           DOMAIN HostToService =
               UNION { NamespaceKeys(n) : n \in { x \in NamespaceNames : ~cluster.svcErr[x] } }

\* SyncKube has returned hostnames of one namespace although the services of
\* the other namespace, which declare hostnames too, could not be listed
C18_Witness ==
    /\ derived
    /\ \E n, o \in NamespaceNames :
           /\ cluster.svcErr[n]
           /\ NamespaceKeys(n) # {}
           /\ ~cluster.svcErr[o]
           /\ NamespaceKeys(o) # {}
           /\ DOMAIN HostToService = NamespaceKeys(o)

\* the namespaces in lexicographic order
LexNamespaces == <<NamespaceA, NamespaceB>>

\* the declarations of a list of services, in listing order: one per hostname
\* of every service that has hostnames and a usable port
RECURSIVE DeclaredBy(_, _)
DeclaredBy(n, svcs) ==
    IF svcs = <<>> THEN <<>>
    ELSE LET svc == Head(svcs)
             d == IF ServiceHostnamesAnnotation \in DOMAIN svc.Annotations
                  THEN rawDomains(svc.Annotations[ServiceHostnamesAnnotation])
                  ELSE <<>>
             port == chooseServicePort(svc)
         IN  (IF port = 0 THEN <<>>
              ELSE [i \in 1..Len(d) |->
                       [Hostname |-> d[i], Service |-> serviceURL(svc.Name, n, port)]])
             \o DeclaredBy(n, Tail(svcs))

\* the declarations of the cluster in processing order
RECURSIVE DeclaredIn(_)
DeclaredIn(namespaces) ==
    IF namespaces = <<>> THEN <<>>
    ELSE (IF cluster.svcErr[Head(namespaces)] THEN <<>>
          ELSE DeclaredBy(Head(namespaces), cluster.items[Head(namespaces)]))
         \o DeclaredIn(Tail(namespaces))

Declared == DeclaredIn(LexNamespaces)

\* C19: every declared hostname is in the SyncState that SyncKube returns, and
\* it maps to the target of the first declaration of that hostname in
\* processing order.
C19_FirstWriterWins ==
    derived =>
        /\ DOMAIN HostToService = { Declared[i].Hostname : i \in 1..Len(Declared) }
        /\ \A i \in 1..Len(Declared) :
               (\A j \in 1..(i - 1) : Declared[j].Hostname # Declared[i].Hostname)
                   => HostToService[Declared[i].Hostname] = Declared[i].Service

\* two services have declared one hostname; it maps to the first service, and
\* a hostname the second service declares after it maps to the second service
C19_Witness ==
    /\ derived
    /\ \E i, j, k \in 1..Len(Declared) :
           /\ i < j
           /\ j < k
           /\ Declared[i].Hostname = Declared[j].Hostname
           /\ Declared[i].Service # Declared[j].Service
           /\ Declared[k].Service = Declared[j].Service
           /\ HostToService[Declared[i].Hostname] = Declared[i].Service
           /\ HostToService[Declared[k].Hostname] = Declared[j].Service

----------------------------------------------------------------------------
(* the polling loop *)

\* a failed cycle has returned, no signal has been raised, and the model's
\* bound on submitted configurations leaves room for another cycle
FailedAndAlive ==
    /\ loop.pc = "select"
    /\ loop.lastErr
    /\ ~loop.ctxDone
    /\ Len(puts) < MaxPuts

\* C15: the loop exits only when the context is done, and after a failed cycle
\* without a shutdown signal another cycle is started (unless a signal is
\* raised first).
C15_FailedCycleGoesOn ==
    /\ [](loop.pc = "exited" => loop.ctxDone)
    /\ (FailedAndAlive ~> (loop.pc = "sync" \/ loop.ctxDone))

\* a cycle is in progress that was started after a failed cycle, with no
\* signal raised
C15_Witness ==
    /\ loop.pc = "sync"
    /\ loop.lastErr
    /\ ~loop.ctxDone

\* C16: at most one cycle is in progress, and the timer of the next cycle
\* runs only while no cycle is in progress.
C16_NoOverlap ==
    /\ loop.inProgress <= 1
    /\ loop.timer = "armed" => loop.inProgress = 0

\* the timer runs after a cycle that failed, and an earlier cycle succeeded
C16_Witness ==
    /\ loop.pc = "select"
    /\ loop.timer = "armed"
    /\ loop.lastErr
    /\ Len(puts) >= 1

\* C17: after a signal raised while the loop waits in the select no cycle is
\* started, and the loop exits.
C17_ShutdownWhileIdle ==
    /\ [](loop.signalAt = "select" => (~loop.lateStart /\ loop.pc \in {"select", "exited"}))
    /\ ((loop.signalAt = "select") ~> (loop.pc = "exited"))

\* the loop has exited on a signal that was raised while it waited, after a
\* cycle that submitted a configuration
C17_Witness ==
    /\ loop.pc = "exited"
    /\ loop.signalAt = "select"
    /\ Len(puts) >= 1

----------------------------------------------------------------------------
(* pagination *)

\* the number of requests of a call that no request fails
PagesToRequest == IF pager.total = 0 THEN 1 ELSE pager.total

\* the items of pages 1 to n, in order
RECURSIVE ItemsUpTo(_)
ItemsUpTo(n) ==
    IF n = 0 THEN <<>>
    ELSE ItemsUpTo(n - 1)
         \o [i \in 1..Len(pager.layout[n]) |->
                [Page |-> n, Index |-> i, Type |-> pager.layout[n][i]]]

\* the items the function returns of a list: all zones, and the A, AAAA and
\* CNAME records
Kept(items) ==
    IF pager.fn = "loadZones" THEN items
    ELSE SelectSeq(items, LAMBDA r : r.Type # "TXT")

\* C22: the pages requested are 1, 2, 3, ... in order, each once, and never
\* more than the number of pages (one when that number is 0); the loop goes on
\* while pages are left; a call that returns without error has requested all
\* of them and returns the items of all of them; a call whose request failed
\* returns an error and no items.
C22_Pagination ==
    /\ \A i \in 1..Len(pager.requested) : pager.requested[i] = i
    /\ Len(pager.requested) <= PagesToRequest
    /\ pager.pc = "loop" => Len(pager.requested) < PagesToRequest
    /\ (pager.pc = "returned" /\ ~pager.err) =>
           /\ Len(pager.requested) = PagesToRequest
           /\ pager.items = Kept(ItemsUpTo(PagesToRequest))
    /\ (pager.pc = "returned" /\ pager.err) =>
           /\ Len(pager.requested) = pager.failAt
           /\ pager.items = <<>>

\* loadDNSRecords has returned the records of three pages, one of which held
\* a record of another type
C22_Witness ==
    /\ pager.pc = "returned"
    /\ ~pager.err
    /\ pager.fn = "loadDNSRecords"
    /\ pager.total = 3
    /\ Len(pager.requested) = 3
    /\ Len(pager.items) >= 3
    /\ Len(pager.items) < Len(ItemsUpTo(3))

----------------------------------------------------------------------------
(* hostnames and zones *)

\* the desired hostnames that match no zone of the account
Unmatched ==
    { h \in Desired :
        normalizeHost(h) # EmptyString
        /\ bestMatchingZone(normalizeHost(h), zones) = EmptyString }

\* C21: no call is made for a desired hostname that matches no zone, and a
\* pass over a SyncState with such a hostname in which no request fails
\* returns without error after reconciling every zone that has desired
\* hostnames.
C21_UnmatchedHostname ==
    /\ \A k \in 1..Len(calls) : \A h \in Unmatched : ~equalDNSHost(calls[k].name, h)
    /\ (Unmatched # {} /\ pass >= 1 /\ faults = 0 /\ dns.pc = "done") =>
           /\ ~dns.err
           /\ AssignedZoneIDs \subseteq listed
           /\ \A h \in Desired \ Unmatched : \A i \in ZonesOf(h) :
                  zones[i].ID \in AssignedZoneIDs => InZoneNamed(i, h) # {}

\* a pass over a SyncState with a hostname that matches no zone has returned
\* without error and has created a CNAME for another hostname
C21_Witness ==
    /\ Unmatched # {}
    /\ dns.pc = "done"
    /\ ~dns.err
    /\ \E k \in Made("create") : calls[k].ok /\ Applied(calls[k])

\* C26: within one pass no two create calls are made for the same normalized
\* hostname in a zone.
C26_OneCreatePerName ==
    \A k, l \in Made("create") :
        (calls[k].zone = calls[l].zone /\ equalDNSHost(calls[k].name, calls[l].name))
            => k = l

\* C27: when a pass in which no request fails has returned, the records of
\* every zone that bestMatchingZone assigns to a desired hostname have been
\* asked for.
C27_MatchedZoneReconciled ==
    (pass >= 1 /\ faults = 0 /\ dns.pc = "done") =>
        \A h \in Desired : \A i \in ZonesOf(h) : zones[i].ID \in listed

\* the ids of the zones that are the best match of a desired hostname
MatchedZoneIDs == { zones[i].ID : i \in UNION { ZonesOf(h) : h \in Desired } }

----------------------------------------------------------------------------
(* the update rule *)

\* rec is a managed CNAME whose name is a desired hostname of its zone
ManagedDesired(rec) ==
    /\ rec.Type = "CNAME"
    /\ isManaged(rec)
    /\ \E h \in Desired : \E i \in ZonesOf(h) :
           /\ zones[i].ID = rec.Zone
           /\ normalizeHost(h) = normalizeHost(rec.Name)

\* the content of rec differs from the tunnel target after normalization
Differs(rec) == normalizeHost(rec.Content) # normalizeHost(target)

\* the records that call c was aimed at, as the zone held them
Aimed(c) == { i \in 1..Len(c.held) : c.held[i].ID = c.id }

\* every update call is aimed at a managed CNAME of a desired hostname whose
\* content differs; it sets the content to the target and the comment to the
\* marker; no update or delete call is aimed at such a CNAME whose content
\* equals the target
UpdateOnlyIfDiffers ==
    /\ \A k \in Made("update") :
           /\ Aimed(calls[k]) # {}
           /\ \A i \in Aimed(calls[k]) :
                  ManagedDesired(calls[k].held[i]) /\ Differs(calls[k].held[i])
           /\ calls[k].ok => Applied(calls[k])
    /\ \A k \in 1..Len(calls) : calls[k].op # "create" =>
           \A i \in Aimed(calls[k]) :
               ~(ManagedDesired(calls[k].held[i]) /\ ~Differs(calls[k].held[i]))

\* the first pass has returned without error over the records records0
FirstPassDone == pass = 1 /\ dns.pc = "done" /\ ~dns.err

\* every managed CNAME of a desired hostname whose content differs, in a zone
\* that was reconciled, has been the aim of an update call
UpdateIfDiffers ==
    \A j \in 1..Len(records0) :
        (/\ records0[j].Zone \in listed
         /\ ManagedDesired(records0[j])
         /\ Differs(records0[j]))
            => \E k \in Made("update") :
                   calls[k].zone = records0[j].Zone /\ calls[k].id = records0[j].ID

----------------------------------------------------------------------------
(* the published ingress list *)

\* the requests sent by SyncTunnel
SyncTunnelPuts == { k \in 1..Len(puts) : puts[k].by = "SyncTunnel" }

\* the positions of the rules of a list that carry hostname h
RulesFor(ingress, h) == { i \in 1..Len(ingress) : ingress[i].Hostname = h }

\* C24: the ingress list submitted by SyncTunnel is the catch-all preceded by
\* exactly one rule per SyncState entry, with the entry's hostname and target,
\* and holds no rule for a hostname that is not a key of the SyncState.
C24_FullReplace ==
    \A k \in SyncTunnelPuts :
        LET ingress == puts[k].Ingress
            state == puts[k].state
        IN  /\ Len(ingress) = SyncStateLen(state) + 1
            /\ ingress[Len(ingress)] = CatchAll
            /\ \A h \in DOMAIN state :
                   /\ Cardinality(RulesFor(ingress, h)) = 1
                   /\ \A i \in RulesFor(ingress, h) :
                          i < Len(ingress) /\ ingress[i].Service = state[h]
            /\ \A i \in 1..(Len(ingress) - 1) : ingress[i].Hostname \in DOMAIN state

\* SyncTunnel has submitted the rules of a SyncState of two entries or more
C24_Witness ==
    \E k \in SyncTunnelPuts :
        /\ SyncStateLen(puts[k].state) >= 2
        /\ Len(puts[k].Ingress) >= 3

\* C25: in every ingress list submitted to the tunnel provider no two rules
\* carry the same hostname.
C25_NoDuplicateHostnames ==
    \A k \in 1..Len(puts) :
        \A i, j \in 1..Len(puts[k].Ingress) :
            puts[k].Ingress[i].Hostname = puts[k].Ingress[j].Hostname => i = j

----------------------------------------------------------------------------
(* specifications *)

InitState == StateIdle /\ ZoneIdle /\ KubeIdle /\ DNSIdle /\ DriverIdle /\ PagerIdle
NextState == AppendCall
SpecState == InitState /\ [][NextState]_vars

InitZone == StateIdle /\ ZoneInputs /\ KubeIdle /\ DNSIdle /\ DriverIdle /\ PagerIdle
NextZone == CallBestMatchingZone
SpecZone == InitZone /\ [][NextZone]_vars

InitTunnel == StateIdle /\ ZoneIdle /\ KubeInputs /\ DNSIdle /\ DriverIdle /\ PagerIdle
NextTunnel == SyncKubeStep \/ SyncTunnelStep \/ RunSyncStep
SpecTunnel == InitTunnel /\ [][NextTunnel]_vars

InitDNS ==
    /\ HostToService \in DesiredStates
    /\ lastAppend = NoAppend
    /\ ZoneIdle
    /\ KubeIdle
    /\ DNSInputs
    /\ DriverIdle
    /\ PagerIdle
NextDNS ==
    \/ DNSBegin
    \/ DNSZone
    \/ DNSZonesDone
    \/ DNSCname
    \/ DNSCnamesDone
    \/ DNSCreate
    \/ DNSZoneDone
SpecDNS == InitDNS /\ [][NextDNS]_vars

InitDriver == StateIdle /\ ZoneIdle /\ KubeInputs /\ DNSIdle /\ DriverInputs /\ PagerIdle
NextDriver ==
    \/ Signal
    \/ InitialSync
    \/ RunSyncReturn
    \/ TimerTick
    \/ Shutdown
InitPages ==
    StateIdle /\ ZoneIdle /\ KubeIdle /\ DNSIdle /\ DriverIdle /\ PagerInputs
NextPages == PageStep
SpecPages == InitPages /\ [][NextPages]_vars

SpecDriver == InitDriver /\ [][NextDriver]_vars

\* the scheduler runs main, the network calls of runSync return, and a timer
\* that was started fires
SpecDriverLive ==
    /\ InitDriver
    /\ [][NextDriver]_vars
    /\ WF_vars(InitialSync)
    /\ WF_vars(RunSyncReturn)
    /\ WF_vars(TimerTick)
    /\ WF_vars(Shutdown)

=============================================================================
